---- MODULE Spec2Model ----
(***************************************************************************)
(* The AccessToken ("007") token codec of agora-manager.py: Service,       *)
(* ServiceRtc, AccessToken and AgoraAPI.generate_rtc_token.                *)
(* With it, the second scheme: generate_rtc_token of generate_keys.py.    *)
(*                                                                         *)
(* Representation.                                                         *)
(*   - A Python str is the sequence of its code points; bytes are a        *)
(*     sequence of numbers in 0..255.                                      *)
(*   - A Python int that is written with struct '>I' can be larger than    *)
(*     TLC's own integers, so it is kept as two base-65536 digits          *)
(*     [hi, lo] standing for hi * 65536 + lo, with lo in 0..65535 and hi   *)
(*     any integer (W(n) builds it from a small n).                        *)
(*   - A Python dict is the sequence of its items in insertion order.      *)
(*   - A call that raises returns [ok |-> FALSE, ...]; one that returns    *)
(*     normally [ok |-> TRUE, val |-> the value].                          *)
(*   - hmac and base64 are library code: a digest is the term              *)
(*     [key, msg], a base64 text the term [b64 |-> bytes].                 *)
(***************************************************************************)
EXTENDS Integers, Sequences, FiniteSets, TLC

VARIABLES
  services,  \* the Service objects made so far (an object's index is its reference)
  token,     \* the AccessToken under construction, or NoToken
  now,       \* int(time.time())
  drawn,     \* random.randint was called and no build() has used the value yet
  adds,      \* history: the add_privilege calls made, oldest first
  out        \* history: what pack / build / generate_rtc_token returned

vars == <<services, token, now, drawn, adds, out>>

\* ------------------------------------------------------------- bounds
MaxServices == 2
MaxAdds == 3
MaxRegs == 2
MaxBuilds == 2
MaxResults == 1
MaxTicks == 1

\* ------------------------------------------------- program constants
kJoinChannel == 1
kPublishAudioStream == 2
kPublishVideoStream == 3
kPublishDataStream == 4
kAdministrateChannel == 101
ServiceTYPE == 0
ServiceRtcTYPE == 1
DefaultExpireTime == 900
SaltMin == 1
SaltMaxHi == 1525
SaltMaxLo == 57599

\* ------------------------------------------------------ wide integers
W(n) == [hi |-> n \div 65536, lo |-> n % 65536]

WLeq(a, b) == a.hi < b.hi \/ (a.hi = b.hi /\ a.lo <= b.lo)

WAdd(a, b) ==
  [hi |-> a.hi + b.hi + ((a.lo + b.lo) \div 65536), lo |-> (a.lo + b.lo) % 65536]

WZero == W(0)

\* 2^32
TwoTo32 == [hi |-> 65536, lo |-> 0]

\* random.randint(1, 99999999): 99999999 = 1525 * 65536 + 57599
SaltMax == [hi |-> SaltMaxHi, lo |-> SaltMaxLo]

\* ------------------------------------------------------------ results
Ok(v) == [ok |-> TRUE, val |-> v]
StructError == [ok |-> FALSE, val |-> <<>>]

\* a + b of two bytes results: the first error raised wins
Cat(a, b) == IF a.ok /\ b.ok THEN Ok(a.val \o b.val) ELSE StructError

\* ------------------------------------------------------- struct.pack
PackH_Wrap(x) == Ok(<<(x % 65536) \div 256, x % 256>>)

\* struct.pack('>H', x)
PackH(x) == IF x \in 0..65535 THEN Ok(<<x \div 256, x % 256>>) ELSE StructError

PackI_Wrap(w) == Cat(PackH_Wrap(w.hi), PackH_Wrap(w.lo))

\* struct.pack('>I', w)
PackI(w) == IF w.hi \in 0..65535 THEN Cat(PackH(w.hi), PackH(w.lo)) ELSE StructError

\* the decoder's view of packed bytes
U16At(b, i) == b[i] * 256 + b[i + 1]
U32At(b, i) == [hi |-> U16At(b, i), lo |-> U16At(b, i + 2)]

\* --------------------------------------------------------- str.encode
\* one code point (below 0x10000) as UTF-8
Utf8Char(c) ==
  IF c < 128 THEN <<c>>
  ELSE IF c < 2048 THEN <<192 + (c \div 64), 128 + (c % 64)>>
  ELSE <<224 + (c \div 4096), 128 + ((c \div 64) % 64), 128 + (c % 64)>>

RECURSIVE Utf8(_)
Utf8(s) == IF s = <<>> THEN <<>> ELSE Utf8Char(Head(s)) \o Utf8(Tail(s))

\* ------------------------------------------------------- bytes.fromhex
\* the value of one hex digit, -1 for any other character
HexVal(c) ==
  IF c \in 48..57 THEN c - 48
  ELSE IF c \in 97..102 THEN c - 87
  ELSE IF c \in 65..70 THEN c - 55
  ELSE -1

RECURSIVE HexPairs(_)
HexPairs(s) ==
  IF s = <<>> THEN <<>>
  ELSE <<16 * HexVal(s[1]) + HexVal(s[2])>> \o HexPairs(SubSeq(s, 3, Len(s)))

\* bytes.fromhex(s) of a string without white space: it raises on an odd
\* length or a character that is no hex digit
FromHex(s) ==
  IF Len(s) % 2 = 0 /\ \A i \in DOMAIN s : HexVal(s[i]) >= 0
  THEN Ok(HexPairs(s)) ELSE StructError

\* --------------------------------------------------------------- str()
RECURSIVE Digits(_)
Digits(n) == IF n < 10 THEN <<48 + n>> ELSE Append(Digits(n \div 10), 48 + (n % 10))

\* str(n) of an int
StrInt(n) == IF n < 0 THEN <<45>> \o Digits(-n) ELSE Digits(n)

\* a uid argument is an int or a str
IntArg(n) == [kind |-> "int", n |-> n, s |-> <<>>]
StrArg(s) == [kind |-> "str", n |-> 0, s |-> s]

Truthy(a) == IF a.kind = "int" THEN a.n # 0 ELSE a.s # <<>>
Str(a) == IF a.kind = "int" THEN StrInt(a.n) ELSE a.s

\* ---------------------------------------------------------------- dict
DictKeys(d) == {d[i].k : i \in DOMAIN d}
DictHas(d, k) == k \in DictKeys(d)
DictGet(d, k) == d[CHOOSE i \in DOMAIN d : d[i].k = k].v

\* d[k] = v: a new key goes last, an old key keeps its place
DictSet(d, k, v) ==
  IF DictHas(d, k)
  THEN [i \in DOMAIN d |-> IF d[i].k = k THEN [k |-> k, v |-> v] ELSE d[i]]
  ELSE Append(d, [k |-> k, v |-> v])

SortedItems_Unsorted(d) == d

RECURSIVE SortedItems(_)
\* sorted(d.items()): ascending by key (keys are unique)
SortedItems(d) ==
  IF d = <<>> THEN <<>>
  ELSE LET m == CHOOSE i \in DOMAIN d : \A j \in DOMAIN d : d[i].k <= d[j].k
       IN <<d[m]>> \o SortedItems(SubSeq(d, 1, m - 1) \o SubSeq(d, m + 1, Len(d)))

\* ------------------------------------------------------------- Service
\* Service.__init__: a service object
Service == [TYPE |-> ServiceTYPE, rtc |-> FALSE, privileges |-> <<>>,
            channel_name |-> <<>>, uid |-> <<>>]

ServiceRtc_AlwaysStr(channel_name, uid) ==
  [TYPE |-> ServiceRtcTYPE, rtc |-> TRUE, privileges |-> <<>>,
   channel_name |-> channel_name, uid |-> Str(uid)]

\* ServiceRtc.__init__
ServiceRtc(channel_name, uid) ==
  [TYPE |-> ServiceRtcTYPE, rtc |-> TRUE, privileges |-> <<>>,
   channel_name |-> channel_name,
   uid |-> IF Truthy(uid) THEN Str(uid) ELSE <<>>]

\* Service.add_privilege
add_privilege(s, privilege, expire) ==
  [s EXCEPT !.privileges = DictSet(@, privilege, expire)]

RECURSIVE PackItems(_)
\* the loop of Service.pack over the items it is given
PackItems(items) ==
  IF items = <<>> THEN Ok(<<>>)
  ELSE Cat(Cat(PackH(Head(items).k), PackI(Head(items).v)), PackItems(Tail(items)))

\* Service.pack
ServicePack(s) ==
  LET packed_privileges == PackItems(SortedItems(s.privileges))
  IN IF packed_privileges.ok
     THEN Cat(Cat(PackH(s.TYPE), PackH(Len(s.privileges))), packed_privileges)
     ELSE StructError

\* ServiceRtc.pack
ServiceRtcPack(s) ==
  Cat(Cat(Cat(Cat(ServicePack(s),
                  PackH(Len(s.channel_name))), Ok(Utf8(s.channel_name))),
          PackH(Len(s.uid))), Ok(Utf8(s.uid)))

\* service.pack(), dispatched on the object's class
pack(s) == IF s.rtc THEN ServiceRtcPack(s) ELSE ServicePack(s)

\* --------------------------------------------------------- AccessToken
Version_006 == <<48, 48, 54>>

\* "007"
Version == <<48, 48, 55>>

NoToken == [made |-> FALSE]

\* AccessToken.__init__; issue_ts = 0 means "now", salt is the value drawn
AccessToken(app_id, app_certificate, issue_ts, expire_time, salt) ==
  [made |-> TRUE, app_id |-> app_id, app_certificate |-> app_certificate,
   issue_ts |-> IF issue_ts # WZero THEN issue_ts ELSE now,
   expire_time |-> expire_time, salt |-> salt, services |-> <<>>]

add_service_Append(tk, heap, ref) ==
  [tk EXCEPT !.services = Append(@, [k |-> heap[ref].TYPE, v |-> ref])]

\* AccessToken.add_service: the dict holds a reference to the service object
add_service(tk, heap, ref) ==
  [tk EXCEPT !.services = DictSet(@, heap[ref].TYPE, ref)]

RECURSIVE PackServices(_, _)
\* the loop of AccessToken.build over self.services.items()
PackServices(items, heap) ==
  IF items = <<>> THEN Ok(<<>>)
  ELSE Cat(pack(heap[Head(items).v]), PackServices(Tail(items), heap))

\* what build() writes as the salt and the issue time
BuildSalt(tk) == tk.salt
BuildIssueTs_Clock(tk) == now
BuildIssueTs(tk) == tk.issue_ts

\* the payload of AccessToken.build ("packed")
Packed(tk, heap) ==
  LET packed_services == PackServices(tk.services, heap)
  IN IF packed_services.ok
     THEN Cat(Cat(Cat(Cat(PackI(BuildSalt(tk)), PackI(BuildIssueTs(tk))),
                      PackI(tk.expire_time)),
                  PackH(Len(tk.services))), packed_services)
     ELSE StructError

\* hmac.new(key, msg, sha256).digest()
Hmac(key, msg) == [key |-> key, msg |-> msg]

\* base64.b64encode(x).decode('utf-8')
B64(x) == [b64 |-> x]
Text(s) == [text |-> s]

\* the key and the message of the signature of build()
SignKey(tk) == Utf8(tk.app_certificate)
SignContent(tk, packed) == Utf8(tk.app_id) \o packed

\* the string build() returns, as its consecutive segments
TokenString(tk, packed) ==
  <<Text(Version \o tk.app_id), B64(Hmac(SignKey(tk), SignContent(tk, packed))),
    B64(packed)>>

\* AccessToken.build
build(tk, heap) ==
  LET packed == Packed(tk, heap)
  IN IF packed.ok THEN Ok(TokenString(tk, packed.val)) ELSE StructError

RtcService_HostNoData(channel_name, uid, role, expires_after) ==
  LET s1 == add_privilege(ServiceRtc(channel_name, uid), kJoinChannel, expires_after)
  IN IF role = 1
     THEN add_privilege(add_privilege(s1, kPublishAudioStream, expires_after),
                        kPublishVideoStream, expires_after)
     ELSE s1

RtcService_AdminForOthers(channel_name, uid, role, expires_after) ==
  LET s1 == add_privilege(ServiceRtc(channel_name, uid), kJoinChannel, expires_after)
  IN IF role = 1
     THEN add_privilege(add_privilege(add_privilege(s1,
            kPublishAudioStream, expires_after),
            kPublishVideoStream, expires_after),
            kPublishDataStream, expires_after)
     ELSE IF role = 2 THEN s1
     ELSE add_privilege(s1, kAdministrateChannel, expires_after)

RtcService_AbsoluteExpire(channel_name, uid, role, expires_after) ==
  LET at == WAdd(now, expires_after)
      s1 == add_privilege(ServiceRtc(channel_name, uid), kJoinChannel, at)
  IN IF role = 1
     THEN add_privilege(add_privilege(add_privilege(s1,
            kPublishAudioStream, at), kPublishVideoStream, at),
            kPublishDataStream, at)
     ELSE s1

\* AgoraAPI.generate_rtc_token, up to the token object it builds: the token
\* and the one service it holds
RtcService(channel_name, uid, role, expires_after) ==
  LET s0 == ServiceRtc(channel_name, uid)
      s1 == add_privilege(s0, kJoinChannel, expires_after)
  IN IF role = 1
     THEN add_privilege(add_privilege(add_privilege(s1,
            kPublishAudioStream, expires_after),
            kPublishVideoStream, expires_after),
            kPublishDataStream, expires_after)
     ELSE s1

RtcToken(app_id, app_cert, channel_name, uid, role, expires_after, salt) ==
  add_service(AccessToken(app_id, app_cert, WZero, expires_after, salt),
              <<RtcService(channel_name, uid, role, expires_after)>>, 1)

\* ------------------------------------- generate_keys.py: the second scheme
\* struct.pack('>B', x)
PackB(x) == IF x \in 0..255 THEN Ok(<<x>>) ELSE StructError

\* the certificate written into generate_keys.py:
\* "f76e8ace079b47deb51d9703a1ca925a"
KeysCertHex ==
  <<102, 55, 54, 101, 56, 97, 99, 101, 48, 55, 57, 98, 52, 55, 100, 101,
    98, 53, 49, 100, 57, 55, 48, 51, 97, 49, 99, 97, 57, 50, 53, 97>>

\* the bytes generate_rtc_token signs ("token"), for an AgoraAPI object whose
\* app_id is app_id
KeysTokenBytes(app_id, channel_name, uid, role, expires_after) ==
  LET expires_at == WAdd(now, expires_after)
  IN Cat(Cat(Cat(Cat(Cat(Cat(Cat(Cat(Ok(<<0, 2>>),
       PackI(W(Len(app_id)))), Ok(Utf8(app_id))),
       PackI(W(Len(channel_name)))), Ok(Utf8(channel_name))),
       PackI(W(Len(Str(uid))))), Ok(Utf8(Str(uid)))),
       PackI(expires_at)), PackB(role))

\* signature + token: the bytes of a digest, then b
SigCat(sig, b) == [sig |-> sig, then |-> b]

\* AgoraAPI.generate_rtc_token of generate_keys.py: the string it returns,
\* as its consecutive segments
KeysRtcToken(app_id, channel_name, uid, role, expires_after) ==
  LET tkn == KeysTokenBytes(app_id, channel_name, uid, role, expires_after)
      app_cert == FromHex(KeysCertHex).val
  IN IF tkn.ok THEN Ok(<<B64(SigCat(Hmac(app_cert, tkn.val), tkn.val))>>)
     ELSE StructError

\* ------------------------------------------------------------- inputs
T0 == W(1700000000)

AppIds == {<<>>, <<97>>}

\* (app_id, app_certificate, issue_ts, expire_time) of AccessToken(...), and
\* the salt drawn for it
TokenArgs ==
  { <<<<97>>, <<107>>, W(1), W(3600), W(SaltMin)>>,
    <<<<97>>, <<107>>, W(1), W(3600), SaltMax>>,
    <<<<>>, <<107>>, W(1), W(DefaultExpireTime), W(SaltMin)>>,
    <<<<97>>, <<>>, WZero, W(DefaultExpireTime), SaltMax>> }

\* (app_id, app_certificate, issue_ts, expire_time) with values that do not
\* fit 32 bits
WideTokenArgs ==
  { <<<<97>>, <<107>>, WZero, W(DefaultExpireTime)>>,
    <<<<97>>, <<107>>, TwoTo32, W(DefaultExpireTime)>>,
    <<<<97>>, <<107>>, WZero, W(-1)>> }

\* (app_id, app_certificate, issue_ts, expire_time) with certificates as the
\* console shows them, strings of hex digits: "0a", "00", "0A"
HexTokenArgs ==
  { <<app_id, cert, issue_ts, W(DefaultExpireTime)>> :
      app_id \in {<<97>>, <<233>>}, cert \in {<<48, 97>>, <<48, 48>>, <<48, 65>>},
      issue_ts \in {WZero, W(1)} }

\* (privilege, expire) of add_privilege
PrivArgs ==
  {<<p, W(e)>> : p \in {kJoinChannel, kPublishAudioStream, kAdministrateChannel},
                 e \in {3600, 7200}}
  \cup {<<65536, W(3600)>>}

\* (privilege, expire) with values that do not fit 16 or 32 bits
WidePrivArgs ==
  {<<kJoinChannel, W(3600)>>, <<kJoinChannel, WAdd(TwoTo32, W(3600))>>,
   <<65536 + kJoinChannel, W(3600)>>}

\* the arguments of generate_rtc_token
Channels == {<<99>>}
Uids == {IntArg(0), IntArg(42), IntArg(-5), StrArg(<<>>)}
Roles == {1, 2, 3}
ExpiresAfter == {W(3600), W(-1)}

\* the applications of an account: the app_id an AgoraAPI object of
\* generate_keys.py is made for, and the certificate the console shows for it
Apps ==
  { [app_id |-> <<97>>, app_certificate |-> KeysCertHex],
    [app_id |-> <<98>>, app_certificate |-> <<48, 48>>] }
KeysUids == {IntArg(0), IntArg(42)}
\* a role is written as one byte: 256 does not fit
KeysRoles == Roles \cup {256}

\* (channel_name, uid) of ServiceRtc(...) with text outside ASCII:
\* "c", "\u00e9" (2 bytes of UTF-8), "\u20ac" (3 bytes)
TextChannels == {<<99>>, <<233>>, <<8364>>}
TextUids == {IntArg(42), StrArg(<<233>>)}

\* the services of a token, in the order of its dict
Resolve(tk, heap) == [i \in DOMAIN tk.services |-> heap[tk.services[i].v]]

NoCall == [made |-> FALSE]

\* ------------------------------------------------------------ actions
Init ==
  /\ services = <<>>
  /\ token = NoToken
  /\ now = T0
  /\ drawn = FALSE
  /\ adds = <<>>
  /\ out = <<>>

\* time passes
Tick ==
  /\ WLeq(WAdd(now, W(1)), WAdd(T0, W(MaxTicks)))
  /\ now' = WAdd(now, W(1))
  /\ UNCHANGED <<services, token, drawn, adds, out>>

\* s = Service()
NewService ==
  /\ Len(services) < MaxServices
  /\ services' = Append(services, Service)
  /\ UNCHANGED <<token, now, drawn, adds, out>>

\* s = ServiceRtc(channel_name, uid)
NewServiceRtc(channel_name, uid) ==
  /\ Len(services) < MaxServices
  /\ services' = Append(services, ServiceRtc(channel_name, uid))
  /\ UNCHANGED <<token, now, drawn, adds, out>>

\* services[i].add_privilege(privilege, expire)
AddPrivilege(i, privilege, expire) ==
  /\ i \in DOMAIN services
  /\ Len(adds) < MaxAdds
  /\ services' = [services EXCEPT ![i] = add_privilege(@, privilege, expire)]
  /\ adds' = Append(adds, [s |-> i, k |-> privilege, v |-> expire])
  /\ UNCHANGED <<token, now, drawn, out>>

\* token = AccessToken(app_id, app_certificate, issue_ts, expire_time)
NewToken(a, salt) ==
  /\ drawn' = TRUE
  /\ token' = AccessToken(a[1], a[2], a[3], a[4], salt) @@ [regs |-> <<>>]
  /\ UNCHANGED <<services, now, adds, out>>

\* token.add_service(services[i])
AddService(i) ==
  /\ token.made
  /\ i \in DOMAIN services
  /\ Len(token.regs) < MaxRegs
  /\ token' = [add_service(token, services, i) EXCEPT !.regs = Append(@, i)]
  /\ UNCHANGED <<services, now, drawn, adds, out>>

\* a build() that draws a new salt for itself and keeps it
Build_Rerolls(limit) ==
  /\ token.made
  /\ Len(out) < limit
  /\ token' = [token EXCEPT !.salt = IF @ = SaltMax THEN W(SaltMin) ELSE SaltMax]
  /\ out' = Append(out, [op |-> "build", call |-> NoCall, tk |-> token',
                         svcs |-> Resolve(token, services),
                         res |-> build(token', services), at |-> now,
                         fresh |-> drawn])
  /\ drawn' = FALSE
  /\ UNCHANGED <<services, now, adds>>

\* token.build(), in a behaviour that records up to limit results
Build(limit) ==
  /\ token.made
  /\ Len(out) < limit
  /\ out' = Append(out, [op |-> "build", call |-> NoCall, tk |-> token,
                         svcs |-> Resolve(token, services),
                         res |-> build(token, services), at |-> now,
                         fresh |-> drawn])
  /\ drawn' = FALSE
  /\ UNCHANGED <<services, token, now, adds>>

\* services[i].pack()
Pack(i) ==
  /\ i \in DOMAIN services
  /\ Len(out) < MaxResults
  /\ out' = Append(out, [op |-> "pack", svc |-> services[i],
                         hist |-> SelectSeq(adds, LAMBDA h : h.s = i),
                         res |-> pack(services[i])])
  /\ UNCHANGED <<services, token, now, drawn, adds>>

\* The state in which one service object, s, has been made.
InitOne(s) ==
  /\ services = <<s>>
  /\ token = NoToken
  /\ now = T0
  /\ drawn = FALSE
  /\ adds = <<>>
  /\ out = <<>>

InitSvc == InitOne(Service) \/ InitOne(ServiceRtc(<<99>>, IntArg(42)))

\* The builder: tokens that hold one service, pairs of builds, time.
Next ==
  \/ Tick
  \/ \E a \in TokenArgs : NewToken(a, a[5])
  \/ AddService(1)
  \/ Build(MaxBuilds)

Spec == InitOne(ServiceRtc(<<99>>, IntArg(42))) /\ [][Next]_vars

\* Registering services: one token, several services.
NextReg ==
  \/ NewService
  \/ NewServiceRtc(<<99>>, IntArg(42))
  \/ NewToken(<<<<97>>, <<107>>, WZero, W(DefaultExpireTime)>>, W(SaltMin))
  \/ \E i \in DOMAIN services : AddService(i)
  \/ Build(MaxResults)

SpecReg == Init /\ [][NextReg]_vars

\* One service object: its privileges and what pack() returns.
NextSvc ==
  \/ \E pe \in PrivArgs : AddPrivilege(1, pe[1], pe[2])
  \/ Pack(1)

SpecSvc == InitSvc /\ [][NextSvc]_vars

\* Field widths: one service and the tokens that hold it, with values that
\* may not fit their fields.
NextWidth ==
  \/ \E pe \in WidePrivArgs : AddPrivilege(1, pe[1], pe[2])
  \/ \E a \in WideTokenArgs : NewToken(a, W(SaltMin))
  \/ AddService(1)
  \/ Build(MaxResults)

SpecWidth == InitSvc /\ [][NextWidth]_vars

\* Signing: tokens made for certificates that are hex strings.
NextSign ==
  \/ Tick
  \/ \E a \in HexTokenArgs : NewToken(a, W(SaltMin))
  \/ AddService(1)
  \/ Build(MaxResults)

SpecSign == InitOne(ServiceRtc(<<99>>, IntArg(42))) /\ [][NextSign]_vars

\* Strings: services of type 1 made for any text, and what pack() returns.
NextStr ==
  \/ \E channel_name \in TextChannels, uid \in TextUids :
       NewServiceRtc(channel_name, uid)
  \/ \E i \in DOMAIN services : AddPrivilege(i, kJoinChannel, W(DefaultExpireTime))
  \/ \E i \in DOMAIN services : Pack(i)

SpecStr == Init /\ [][NextStr]_vars

\* One builder and its service: everything that can happen between two
\* build() calls, and pack().
NextFrame ==
  \/ Tick
  \/ AddPrivilege(1, kJoinChannel, W(DefaultExpireTime))
  \/ NewToken(<<<<97>>, <<107>>, WZero, W(DefaultExpireTime)>>, W(SaltMin))
  \/ AddService(1)
  \/ Build(MaxBuilds)
  \/ Pack(1)

SpecFrame == InitOne(ServiceRtc(<<99>>, IntArg(42))) /\ [][NextFrame]_vars

\* api.generate_rtc_token(app_id, app_cert, channel_name, uid, role,
\* expires_after): the token and the service are local to the call
GenerateRtcToken(app_id, app_cert, channel_name, uid, role, expires_after, salt) ==
  /\ Len(out) < MaxBuilds
  /\ LET rtc_service == RtcService(channel_name, uid, role, expires_after)
         tk == RtcToken(app_id, app_cert, channel_name, uid, role,
                        expires_after, salt)
     IN out' = Append(out,
          [op |-> "rtc",
           call |-> [made |-> TRUE, app_id |-> app_id, app_cert |-> app_cert,
                     channel_name |-> channel_name, uid |-> uid, role |-> role,
                     expires_after |-> expires_after],
           tk |-> tk @@ [regs |-> <<1>>],
           svcs |-> <<rtc_service>>,
           res |-> build(tk, <<rtc_service>>), at |-> now, fresh |-> TRUE])
  /\ UNCHANGED <<services, token, now, drawn, adds>>

\* Calls of generate_rtc_token.
NextRtc ==
  \/ Tick
  \/ \E app_id \in AppIds, channel_name \in Channels, uid \in Uids,
        role \in Roles, expires_after \in ExpiresAfter :
        GenerateRtcToken(app_id, <<107>>, channel_name, uid, role,
                         expires_after, W(SaltMin))

SpecRtc == Init /\ [][NextRtc]_vars

\* AgoraAPI(..., app.app_id, ...).generate_rtc_token(channel_name, uid, role,
\* expires_after) of generate_keys.py
KeysGenerateRtcToken(app, channel_name, uid, role, expires_after) ==
  /\ Len(out) < MaxBuilds
  /\ out' = Append(out,
       [op |-> "keys",
        call |-> [made |-> TRUE, app |-> app, channel_name |-> channel_name,
                  uid |-> uid, role |-> role, expires_after |-> expires_after],
        res |-> KeysRtcToken(app.app_id, channel_name, uid, role, expires_after),
        at |-> now])
  /\ UNCHANGED <<services, token, now, drawn, adds>>

\* Calls of generate_rtc_token of generate_keys.py.
NextKeys ==
  \/ Tick
  \/ \E app \in Apps, channel_name \in Channels, uid \in KeysUids,
        role \in KeysRoles, expires_after \in ExpiresAfter :
        KeysGenerateRtcToken(app, channel_name, uid, role, expires_after)

SpecKeys == Init /\ [][NextKeys]_vars

\* ----------------------------------------------------- reading a token
Builds == {i \in DOMAIN out : out[i].op \in {"build", "rtc"}}
Returned == {i \in Builds : out[i].res.ok}

\* the bytes that are base64-encoded into the last segment of a token
PayloadOf(e) == e.res.val[3].b64
SignatureOf(e) == e.res.val[2].b64

\* the fields a decoder reads at the head of a payload
SaltIn(b) == U32At(b, 1)
IssueTsIn(b) == U32At(b, 5)
ExpireIn(b) == U32At(b, 9)
ServiceCountIn(b) == U16At(b, 13)
HeaderLen == 14

RECURSIVE DecodeItems(_, _, _)
\* n (id, expire) entries read from position pos
DecodeItems(b, pos, n) ==
  IF n = 0 THEN <<>>
  ELSE <<[k |-> U16At(b, pos), v |-> U32At(b, pos + 2)]>>
         \o DecodeItems(b, pos + 6, n - 1)

RECURSIVE DecodeBlocks(_, _)
\* the service blocks a decoder walks through from position pos to the end,
\* skipping the two length-prefixed strings of a service of type 1
DecodeBlocks(b, pos) ==
  IF pos > Len(b) THEN <<>>
  ELSE LET n == U16At(b, pos + 2)
           strs == pos + 4 + 6 * n
           uidAt == strs + 2 + U16At(b, strs)
           next == IF U16At(b, pos) = ServiceRtcTYPE
                   THEN uidAt + 2 + U16At(b, uidAt) ELSE strs
       IN <<[TYPE |-> U16At(b, pos), privileges |-> DecodeItems(b, pos + 4, n)]>>
            \o DecodeBlocks(b, next)

Items(seq) == {seq[i] : i \in DOMAIN seq}

\* ---------------------------------------------------------------- C3
SameInputs(e, f) ==
  /\ e.tk.app_id = f.tk.app_id
  /\ e.tk.app_certificate = f.tk.app_certificate
  /\ e.tk.salt = f.tk.salt
  /\ e.tk.issue_ts = f.tk.issue_ts
  /\ e.tk.expire_time = f.tk.expire_time
  /\ e.svcs = f.svcs

\* C3: two builds with the same salt, the same issue timestamp and identical
\* other inputs (app_id, certificate, expire_time, the services in the order
\* they are held, each in the same state) return the same result: the same
\* payload, the same signature, the same token string.
C3_Deterministic ==
  \A i \in Builds, j \in Builds :
    SameInputs(out[i], out[j]) => out[i].res = out[j].res

\* two builders made by different constructor calls, with the same inputs and
\* a service each, built at different times
C3_Witness ==
  \E i \in Returned, j \in Returned :
    /\ i < j
    /\ SameInputs(out[i], out[j])
    /\ out[j].fresh
    /\ out[i].at # out[j].at
    /\ out[i].svcs # <<>>

\* ---------------------------------------------------------------- C4
Packs == {i \in DOMAIN out : out[i].op = "pack"}

\* the expire of the most recent add of id in a history of add_privilege calls
LastAdded(hist, id) ==
  hist[CHOOSE n \in DOMAIN hist :
         hist[n].k = id /\ \A m \in DOMAIN hist : hist[m].k = id => m <= n].v

\* C4: whenever pack() returns, its count field is the number of distinct ids
\* added, and exactly that many (id, expire) entries follow, strictly
\* ascending by id, one per id added, each with the expire of the most recent
\* add of its id; and a service holds every id ever added to it.
C4_PackSortedLastWins ==
  /\ \A s \in DOMAIN services :
       DictKeys(services[s].privileges)
         = {adds[n].k : n \in {m \in DOMAIN adds : adds[m].s = s}}
  /\ \A i \in Packs :
       out[i].res.ok =>
         LET b == out[i].res.val
             hist == out[i].hist
             ids == {hist[n].k : n \in DOMAIN hist}
             count == U16At(b, 3)
             items == DecodeItems(b, 5, count)
         IN /\ count = Cardinality(ids)
            /\ out[i].svc.rtc \/ Len(b) = 4 + 6 * count
            /\ \A n \in DOMAIN items :
                 /\ items[n].k \in ids
                 /\ items[n].v = LastAdded(hist, items[n].k)
                 /\ n > 1 => items[n - 1].k < items[n].k

\* a pack() that returned after a larger id was added before a smaller one and
\* an id was added again with another expire
C4_Witness ==
  \E i \in Packs :
    /\ out[i].res.ok
    /\ \E m, n \in DOMAIN out[i].hist :
         m < n /\ out[i].hist[m].k > out[i].hist[n].k
    /\ \E m, n \in DOMAIN out[i].hist :
         /\ m < n
         /\ out[i].hist[m].k = out[i].hist[n].k
         /\ out[i].hist[m].v # out[i].hist[n].v

\* ---------------------------------------------------------------- C5
\* the types registered by a history of add_service calls
TypesOf(regs, heap) == {heap[regs[n]].TYPE : n \in DOMAIN regs}

\* the service most recently registered with type t
LastReg(regs, heap, t) ==
  regs[CHOOSE n \in DOMAIN regs :
         /\ heap[regs[n]].TYPE = t
         /\ \A m \in DOMAIN regs : heap[regs[m]].TYPE = t => m <= n]

\* C5: the builder holds at most one service per type, the one most recently
\* registered with that type, and the service_count that build() writes is
\* the number of distinct types registered and the number of service blocks
\* that follow it.
C5_LastWriteWinsPerType ==
  /\ token.made =>
       /\ \A i, j \in DOMAIN token.services :
            token.services[i].k = token.services[j].k => i = j
       /\ DictKeys(token.services) = TypesOf(token.regs, services)
       /\ \A t \in DictKeys(token.services) :
            DictGet(token.services, t) = LastReg(token.regs, services, t)
  /\ \A i \in Returned :
       out[i].op = "build" =>
         /\ ServiceCountIn(PayloadOf(out[i]))
              = Cardinality(TypesOf(out[i].tk.regs, services))
         /\ ServiceCountIn(PayloadOf(out[i]))
              = Len(DecodeBlocks(PayloadOf(out[i]), HeaderLen + 1))

\* a build of a builder on which a second service of a type replaced the first
C5_Witness ==
  \E i \in Returned :
    /\ out[i].op = "build"
    /\ \E m, n \in DOMAIN out[i].tk.regs :
         /\ m < n
         /\ out[i].tk.regs[m] # out[i].tk.regs[n]
         /\ services[out[i].tk.regs[m]].TYPE = services[out[i].tk.regs[n]].TYPE
    /\ ServiceCountIn(PayloadOf(out[i])) = 1

\* ---------------------------------------------------------------- C6
InSaltRange(w) == WLeq(W(SaltMin), w) /\ WLeq(w, SaltMax)

\* C6: the salt written into a payload is in 1..99999999, and every build()
\* uses a salt drawn for it, one that no earlier build() has used.
C6_SaltRerolledPerBuild ==
  /\ \A i \in Returned : InSaltRange(SaltIn(PayloadOf(out[i])))
  /\ \A i \in Builds : out[i].fresh

\* ---------------------------------------------------------------- C7
\* C7: a token is returned only when app_id and app_certificate are both
\* non-empty.
C7_EmptyIdentityRejected ==
  \A i \in Returned :
    out[i].tk.app_id # <<>> /\ out[i].tk.app_certificate # <<>>

\* ---------------------------------------------------------------- C8
FitsH(x) == x \in 0..65535
FitsI(w) == w.hi \in 0..65535

\* every number build() writes fits the field it is written to
AllFit(e) ==
  /\ FitsI(e.tk.salt) /\ FitsI(e.tk.issue_ts) /\ FitsI(e.tk.expire_time)
  /\ FitsH(Len(e.svcs))
  /\ \A n \in DOMAIN e.svcs :
       /\ FitsH(e.svcs[n].TYPE)
       /\ FitsH(Len(e.svcs[n].privileges))
       /\ FitsH(Len(e.svcs[n].channel_name)) /\ FitsH(Len(e.svcs[n].uid))
       /\ \A it \in Items(e.svcs[n].privileges) : FitsH(it.k) /\ FitsI(it.v)

\* C8: build() returns no token when a number does not fit its field, and the
\* numbers a decoder reads from a returned token are the numbers supplied.
C8_NoSilentTruncation ==
  \A i \in Builds :
    LET e == out[i] IN
    /\ ~AllFit(e) => ~e.res.ok
    /\ e.res.ok =>
         LET b == PayloadOf(e)
             blocks == DecodeBlocks(b, HeaderLen + 1)
         IN /\ SaltIn(b) = e.tk.salt
            /\ IssueTsIn(b) = e.tk.issue_ts
            /\ ExpireIn(b) = e.tk.expire_time
            /\ ServiceCountIn(b) = Len(e.svcs)
            /\ Len(blocks) = Len(e.svcs)
            /\ \A n \in DOMAIN blocks :
                 /\ blocks[n].TYPE = e.svcs[n].TYPE
                 /\ Items(blocks[n].privileges) = Items(e.svcs[n].privileges)

\* a build that failed on nothing but a privilege expire that does not fit,
\* beside a privilege that does
C8_Witness ==
  \E i \in Builds :
    /\ ~out[i].res.ok
    /\ FitsI(out[i].tk.issue_ts) /\ FitsI(out[i].tk.expire_time)
    /\ \E n \in DOMAIN out[i].svcs :
         /\ \E it \in Items(out[i].svcs[n].privileges) : FitsH(it.k) /\ ~FitsI(it.v)
         /\ \A it \in Items(out[i].svcs[n].privileges) : FitsH(it.k)

\* --------------------------------------------------- generate_rtc_token
Calls == {i \in DOMAIN out : out[i].op = "rtc"}
CallsReturned == {i \in Calls : out[i].res.ok}

\* the privileges of the one service block of a token of generate_rtc_token
GrantedIn(b) == DecodeItems(b, HeaderLen + 5, U16At(b, HeaderLen + 3))
GrantedIds(b) == {it.k : it \in Items(GrantedIn(b))}

\* ---------------------------------------------------------------- C1
\* C1: a token returned by generate_rtc_token is "007", then app_id verbatim,
\* then the base64 of the signature, then the base64 of the payload, and
\* nothing else.
C1_TokenLayout ==
  \A i \in CallsReturned :
    LET t == out[i].res.val IN
    /\ Len(t) = 3
    /\ DOMAIN t[1] = {"text"} /\ DOMAIN t[2] = {"b64"} /\ DOMAIN t[3] = {"b64"}
    /\ Len(t[1].text) = 3 + Len(out[i].call.app_id)
    /\ SubSeq(t[1].text, 1, 3) = <<48, 48, 55>>
    /\ SubSeq(t[1].text, 4, Len(t[1].text)) = out[i].call.app_id
    /\ DOMAIN t[2].b64 = {"key", "msg"}
    /\ t[2].b64.msg = Utf8(out[i].call.app_id) \o t[3].b64
    /\ IssueTsIn(t[3].b64) = out[i].at
    /\ ExpireIn(t[3].b64) = out[i].call.expires_after

C1_Witness ==
  \E i \in CallsReturned : out[i].call.app_id # <<>> /\ out[i].call.role = 1

\* ---------------------------------------------------------------- C2
SameButRole(c, d) ==
  /\ c.app_id = d.app_id /\ c.app_cert = d.app_cert
  /\ c.channel_name = d.channel_name /\ c.uid = d.uid
  /\ c.expires_after = d.expires_after

HostOnly == {kPublishAudioStream, kPublishVideoStream, kPublishDataStream}

\* C2: audience (role 2) is granted exactly {join}, host (role 1) exactly
\* {join, publish audio, publish video, publish data}; for two calls that
\* differ in the role alone, the host's set strictly includes the audience's
\* and exceeds it by exactly the three publish privileges. A returned token
\* carries the ids granted.
C2_HostSupersetOfAudience ==
  /\ \A i \in Calls :
       LET ids == DictKeys(out[i].svcs[1].privileges) IN
       /\ out[i].call.role = 1 => ids = {kJoinChannel} \cup HostOnly
       /\ out[i].call.role = 2 => ids = {kJoinChannel}
       /\ out[i].res.ok => GrantedIds(PayloadOf(out[i])) = ids
  /\ \A i \in Calls, j \in Calls :
       (out[i].call.role = 1 /\ out[j].call.role = 2
          /\ SameButRole(out[i].call, out[j].call)) =>
         LET host == DictKeys(out[i].svcs[1].privileges)
             audience == DictKeys(out[j].svcs[1].privileges)
         IN /\ audience \subseteq host /\ audience # host
            /\ host \ audience = HostOnly

C2_Witness ==
  \E i \in CallsReturned, j \in CallsReturned :
    /\ out[i].call.role = 1 /\ out[j].call.role = 2
    /\ SameButRole(out[i].call, out[j].call)

\* ---------------------------------------------------------------- C9
\* the user id at the end of the one service block of a payload: the payload
\* ends with uint16(length) and the bytes of the string
CarriesUid(b, str) ==
  LET d == Utf8(str) IN
  /\ Len(b) >= HeaderLen + 8 + Len(d)
  /\ SubSeq(b, Len(b) - Len(d) + 1, Len(b)) = d
  /\ U16At(b, Len(b) - Len(d) - 1) = Len(str)

\* C9 as claimed: every integer uid is carried as its decimal string, and the
\* empty string is carried only for an empty user id.
C9_AlwaysDecimalString ==
  \A i \in Calls :
    LET uid == out[i].call.uid IN
    /\ uid.kind = "int" => out[i].svcs[1].uid = StrInt(uid.n)
    /\ out[i].svcs[1].uid = <<>> => uid = StrArg(<<>>)

\* C9 as amended: a non-zero integer uid is carried as its decimal string (a
\* negative one with its minus sign); the integer 0, like the empty string,
\* is carried as the empty string; and a returned token carries that string.
C9_DecimalStringUnlessZero ==
  \A i \in Calls :
    LET uid == out[i].call.uid
        carried == out[i].svcs[1].uid
    IN /\ (uid.kind = "int" /\ uid.n # 0) => carried = StrInt(uid.n)
       /\ carried = <<>> <=> uid \in {IntArg(0), StrArg(<<>>)}
       /\ out[i].res.ok => CarriesUid(PayloadOf(out[i]), carried)

\* returned tokens for uid 0, for a positive and for a negative uid
C9_Witness ==
  /\ \E i \in CallsReturned : out[i].call.uid = IntArg(0)
  /\ \E i \in CallsReturned :
       out[i].call.uid.kind = "int" /\ out[i].call.uid.n # 0
         /\ Len(out[i].svcs[1].uid) >= 2

C11_KeyIsHexDecodedCertificate ==
  \A i \in Returned :
    LET e == out[i]
        sig == SignatureOf(e)
    IN /\ DOMAIN sig = {"key", "msg"}
       /\ sig.msg = Utf8(e.tk.app_id) \o PayloadOf(e)
       /\ FromHex(e.tk.app_certificate).ok =>
            sig.key = FromHex(e.tk.app_certificate).val

\* --------------------------------------------------------------- C12
KeysCalls == {i \in DOMAIN out : out[i].op = "keys"}

\* C12: a token returned by generate_rtc_token of generate_keys.py is a
\* 3-character version tag, "006" or "007", then app_id, then the base64 of
\* the signature, then the base64 of the payload, and the signature is keyed
\* with the certificate of the application the token is issued for.
C12_VersionedAndKeyedPerApp ==
  \A i \in KeysCalls :
    out[i].res.ok =>
      LET t == out[i].res.val
          app == out[i].call.app
      IN /\ Len(t) = 3
         /\ DOMAIN t[1] = {"text"} /\ DOMAIN t[2] = {"b64"} /\ DOMAIN t[3] = {"b64"}
         /\ SubSeq(t[1].text, 1, 3) \in {<<48, 48, 54>>, <<48, 48, 55>>}
         /\ SubSeq(t[1].text, 4, Len(t[1].text)) = app.app_id
         /\ DOMAIN t[2].b64 = {"key", "msg"}
         /\ t[2].b64.key = FromHex(app.app_certificate).val

\* C12, the key alone: whatever the wire form, the digest in a returned token
\* is keyed with the certificate of the application of the call.
C12_KeyedPerApp ==
  \A i \in KeysCalls :
    out[i].res.ok =>
      out[i].res.val[1].b64.sig.key = FromHex(out[i].call.app.app_certificate).val

\* --------------------------------------------------------------- C13
\* where a reader that trusts the length at pos lands after the string
AfterString(b, pos) == pos + 2 + U16At(b, pos)

\* C13: in what ServiceRtc.pack() returns, channel_name and then the user id
\* are each written as a uint16 length followed by the UTF-8 bytes of the
\* string, the length being the number of those bytes, so that a reader that
\* consumes 'length' bytes lands on the next field and then on the end.
C13_LengthCountsUtf8Bytes ==
  \A i \in Packs :
    (out[i].res.ok /\ out[i].svc.rtc) =>
      LET b == out[i].res.val
          s == out[i].svc
          chAt == 5 + 6 * U16At(b, 3)
          uidAt == chAt + 2 + Len(Utf8(s.channel_name))
      IN /\ U16At(b, chAt) = Len(Utf8(s.channel_name))
         /\ SubSeq(b, chAt + 2, uidAt - 1) = Utf8(s.channel_name)
         /\ AfterString(b, chAt) = uidAt
         /\ U16At(b, uidAt) = Len(Utf8(s.uid))
         /\ SubSeq(b, uidAt + 2, Len(b)) = Utf8(s.uid)
         /\ AfterString(b, uidAt) = Len(b) + 1

\* --------------------------------------------------------------- C14
\* the next build() on the builder of an earlier one: no constructor and no
\* add_service call in between, and the privilege maps of its services as
\* they were
SuccessiveBuilds(i, j) ==
  /\ i \in Builds /\ j \in Builds /\ j = i + 1
  /\ ~out[j].fresh
  /\ out[i].tk.regs = out[j].tk.regs
  /\ out[i].svcs = out[j].svcs

\* C14: a build() or pack() call changes neither a field of the builder
\* (app_id, app_certificate, issue_ts, expire_time, salt, the service map)
\* nor a service or its privilege map; and two successive build() calls on
\* one builder, with no add_service or add_privilege in between, return the
\* same token string.
C14_BuildAndPackReadOnly ==
  /\ [][out' # out => (token' = token /\ services' = services)]_vars
  /\ [](\A i, j \in DOMAIN out : SuccessiveBuilds(i, j) => out[i].res = out[j].res)

\* two successive builds of one builder that holds a service with a
\* privilege, the clock having moved in between
C14_Witness ==
  \E i, j \in Returned :
    /\ SuccessiveBuilds(i, j)
    /\ out[i].at # out[j].at
    /\ out[i].svcs # <<>> /\ out[i].svcs[1].privileges # <<>>

\* --------------------------------------------------------------- C15
\* C15: for every role, a token returned by generate_rtc_token holds exactly
\* one service block, of type 1; the ids granted in it are exactly {join} or
\* exactly {join, publish audio, publish video, publish data}, never the
\* administrate-channel id; and every privilege granted carries one
\* expiration, the value of the token's expire_time field.
C15_OneRtcServiceAnyRole ==
  \A i \in CallsReturned :
    LET b == PayloadOf(out[i])
        blocks == DecodeBlocks(b, HeaderLen + 1)
    IN /\ ServiceCountIn(b) = 1
       /\ Len(blocks) = 1
       /\ blocks[1].TYPE = ServiceRtcTYPE
       /\ LET granted == blocks[1].privileges
              ids == {it.k : it \in Items(granted)}
          IN /\ Len(granted) = Cardinality(ids)
             /\ ids \in {{kJoinChannel}, {kJoinChannel} \cup HostOnly}
             /\ kAdministrateChannel \notin ids
             /\ \A it \in Items(granted) : it.v = ExpireIn(b)

\* returned tokens for a role that is neither host nor audience and for host
C15_Witness ==
  /\ \E i \in CallsReturned : out[i].call.role \notin {1, 2}
  /\ \E i \in CallsReturned :
       out[i].call.role = 1 /\ Len(GrantedIn(PayloadOf(out[i]))) = 4

====
